---- MODULE Spec2Model ----
(***************************************************************************)
(* The asynchronous traversal streams Bfs (src/src/async/bfs.rs) and Dfs   *)
(* (src/src/async/dfs.rs).  One poll_next call is one action; the          *)
(* completion of an expansion future and the readiness of a child stream   *)
(* are actions of the environment.                                         *)
(***************************************************************************)
EXTENDS Integers, Sequences, FiniteSets, TLC

VARIABLES engine, graph, max_depth, allow_circles, visited,
          child_streams_futs, current_stream, stack,
          completed, next_id, out, ret, ended_at, idle_poll, woken

vars == <<engine, graph, max_depth, allow_circles, visited,
          child_streams_futs, current_stream, stack,
          completed, next_id, out, ret, ended_at, idle_poll, woken>>

(***************************************************************************)
(* Bounds of the model.                                                    *)
(***************************************************************************)
\* the largest max_depth = Some(k) a stream is constructed with, the
\* binary tree of the tests apart
MaxDepth == 2

\* the max_depth of the streams of the tests: Bfs::new(0, 3, ..)
TestDepth == 3

(***************************************************************************)
(* Option<T>: None is <<>>, Some(x) is <<x>>.                              *)
(***************************************************************************)
None == <<>>
Some(x) == <<x>>

(***************************************************************************)
(* The node type: a small integer.  An item of a child stream is Ok(n),    *)
(* written n >= 0, or Err(e), written as the negative number -e.           *)
(***************************************************************************)
Root == 0

IsOk(item) == item >= 0

\* the error an expansion future of node n resolves to when it fails
ExpansionError(n) == 0 - (100 + n)

\* the node types the streams are run on, by name
Graphs == {"tree", "backedge", "cycle", "dups", "errors", "duperr", "detour"}

\* Node::children of the named node type: the items of the child stream
Children(g, n) ==
    CASE g = "tree"     -> <<2 * n + 1, 2 * n + 2>>
      [] g = "backedge" -> IF n = 0 THEN <<0, 1>> ELSE <<>>
      [] g = "cycle"    -> CASE n = 0 -> <<1, 2>>
                             [] n = 1 -> <<2, 0>>
                             [] n = 2 -> <<1, 3>>
                             [] OTHER -> <<>>
      [] g = "dups"     -> IF n < 2 THEN <<n + 1, n + 1>> ELSE <<>>
      [] g = "errors"   -> CASE n = 0 -> <<1, -1, 2>>
                             [] n = 2 -> <<-2, 3>>
                             [] OTHER -> <<>>
      [] g = "duperr"   -> CASE n = 0 -> <<1, 1, -1, 2>>
                             [] n = 1 -> <<0, 3>>
                             [] OTHER -> <<>>
      [] g = "detour"   -> CASE n = 0 -> <<1, 2>>
                             [] n = 1 -> <<0, 3>>
                             [] n = 2 -> <<4>>
                             [] n = 4 -> <<3>>
                             [] OTHER -> <<>>

\* Node::children of the named node type: does the expansion future fail
ExpansionFails(g, n) ==
    \/ g = "errors" /\ n \in {1, 3}
    \/ g = "duperr" /\ n = 2

\* the graphs in which every path from the root is finite
Acyclic(g) == g \in {"dups", "errors"}

\* the values of max_depth the streams over a graph are constructed with:
\* the binary tree is infinite and is always run with a cutoff
Depths(g) ==
    IF g = "tree" THEN {Some(k) : k \in 0..TestDepth}
    ELSE {None} \cup {Some(k) : k \in 0..MaxDepth}

(***************************************************************************)
(* StreamQueue = FuturesOrdered: the futures in the order their outputs    *)
(* are yielded; completed holds the ids of the queued futures that have    *)
(* completed, in the order of completion.                                  *)
(***************************************************************************)
IsCompleted(done, id) == \E i \in 1..Len(done) : done[i] = id

Without(done, id) == SelectSeq(done, LAMBDA x : x # id)

\* the ids that completed strictly before id
CompletedBefore(done, id) ==
    {done[i] : i \in {j \in 1..Len(done) : \E k \in (j+1)..Len(done) : done[k] = id}}

push_back(q, f) == Append(q, f)

push_front(q, f) == <<f>> \o q

\* a queue that yields the outputs in the order of completion
FirstCompleted(q, done) ==
    IF done = <<>> THEN 1 ELSE CHOOSE i \in 1..Len(q) : q[i].id = done[1]

\* FuturesOrdered: the position in the queue of the future whose output is
\* yielded next: the front, whatever has completed behind it
Yielded(q, done) == 1

\* FuturesOrdered::poll_next: "None" when the queue holds no future, "Ready"
\* once the future to yield next has completed, "Pending" until then
poll_next_unpin(q, done) ==
    IF q = <<>> THEN "None"
    ELSE IF IsCompleted(done, q[Yielded(q, done)].id) THEN "Ready"
    ELSE "Pending"

\* the future a "Ready" poll yields the output of
YieldedFut(s) == s.child_streams_futs[Yielded(s.child_streams_futs, s.completed)]

\* the future children(depth) of a node, tagged with depth
child_stream_fut(id, node, depth) == [id |-> id, node |-> node, depth |-> depth]

\* the stream a completed future is turned into
boxed(f, done, r) ==
    IF ExpansionFails(graph, f.node)
    THEN [depth |-> f.depth, items |-> <<ExpansionError(f.node)>>, ready |-> TRUE,
          iter |-> TRUE, src |-> f.id, before |-> CompletedBefore(done, f.id)]
    ELSE [depth |-> f.depth, items |-> Children(graph, f.node), ready |-> r,
          iter |-> FALSE, src |-> f.id, before |-> CompletedBefore(done, f.id)]

\* a stream after it yielded its first item; r: is the next item ready at once
Advance(st, r) == [st EXCEPT !.items = Tail(st.items), !.ready = (r \/ st.iter)]

(***************************************************************************)
(* The part of poll_next the two engines share: the visited check, the     *)
(* depth cutoff and the emission.                                          *)
(***************************************************************************)
State == [current_stream |-> current_stream, stack |-> stack,
          child_streams_futs |-> child_streams_futs, completed |-> completed,
          visited |-> visited, next_id |-> next_id, out |-> out]

Outcome(s, r) == [state |-> s, ret |-> r]

\* the visited set is never consulted
UnvisitedAlways(s, node) == TRUE

\* allow_circles || !visited.contains(&node)
Unvisited(s, node) == allow_circles \/ node \notin s.visited

\* if !allow_circles { visited.insert(node) }
Insert(s, node) ==
    IF allow_circles THEN s ELSE [s EXCEPT !.visited = @ \cup {node}]

\* the cutoff one level late
AtCutoffLate(depth) == max_depth # None /\ depth > max_depth[1]

\* if let Some(max_depth) = max_depth { depth >= max_depth }
AtCutoff(depth) == max_depth # None /\ depth >= max_depth[1]

Emit(s, item, st) ==
    [s EXCEPT !.out = Append(@, [item |-> item, depth |-> st.depth,
                                 src |-> st.src, before |-> st.before])]

\* Bfs with the insertion of Dfs
BfsPushFront(q, f) == push_front(q, f)

\* Bfs: the new expansion future goes to the back of the queue
BfsPush(q, f) == push_back(q, f)

\* Dfs: the new expansion future goes to the front of the queue
DfsPush(q, f) == push_front(q, f)

Push(q, f) == IF engine = "bfs" THEN BfsPush(q, f) ELSE DfsPush(q, f)

\* an error that ends the stream it came from
ErrDropsStream(s, err, st) ==
    Outcome(Emit([s EXCEPT !.current_stream = None,
                           !.stack = IF @ = <<>> THEN @
                                     ELSE SubSeq(@, 1, Len(@) - 1)],
                 err, st), "Item")

\* the arm for a ready Err(err): the error is handed to the caller
ErrArm(s, err, st) == Outcome(Emit(s, err, st), "Item")

\* a child tagged two levels below its parent
ChildDepthSkipping(depth) == depth + 2

\* the depth tag of the expansion of a node emitted at depth: depth + 1
ChildDepth(depth) == depth + 1

\* the arm for a ready Ok(node) that is not skipped
Accept(s, node, st) ==
    LET s1 == Insert(s, node)
        s2 == IF AtCutoff(st.depth) THEN s1
              ELSE [s1 EXCEPT
                      !.child_streams_futs =
                          Push(@, child_stream_fut(s1.next_id, node, ChildDepth(st.depth))),
                      !.next_id = @ + 1]
    IN  Outcome(Emit(s2, node, st), "Item")

\* the queue after a "Ready" poll: the yielded future is gone
Taken(s) ==
    [s EXCEPT !.child_streams_futs = SelectSeq(@, LAMBDA f : f.id # YieldedFut(s).id),
              !.completed = Without(@, YieldedFut(s).id)]

(***************************************************************************)
(* Bfs::poll_next                                                          *)
(***************************************************************************)
RECURSIVE BfsDrain(_), BfsAcquire(_)

\* after a skipped node the code leaves the match and polls the queue
BfsAfterSkip(s) == BfsAcquire(s)

BfsDrain(s) ==
    IF s.current_stream = None THEN BfsAcquire(s)
    ELSE LET st == s.current_stream[1] IN
         IF ~st.ready THEN {Outcome(s, "Pending")}
         ELSE IF st.items = <<>> THEN BfsAcquire(s)
         ELSE UNION {
            LET item == Head(st.items)
                s1 == [s EXCEPT !.current_stream = Some(Advance(st, r))]
            IN  IF ~IsOk(item) THEN {ErrArm(s1, item, st)}
                ELSE IF Unvisited(s1, item) THEN {Accept(s1, item, st)}
                ELSE BfsAfterSkip(s1)
            : r \in BOOLEAN }

\* an empty queue taken for a pending one
BfsPendingOnEmptyQueue(s) == {Outcome(s, "Pending")}

\* the queue holds no future: no more child streams, end of stream
BfsQueueEmpty(s) == {Outcome(s, "End")}

BfsAcquire(s) ==
    LET p == poll_next_unpin(s.child_streams_futs, s.completed) IN
    IF p = "Pending" THEN {Outcome(s, "Pending")}
    ELSE IF p = "None" THEN BfsQueueEmpty(s)
    ELSE UNION {
            BfsDrain([Taken(s) EXCEPT !.current_stream =
                         Some(boxed(YieldedFut(s), s.completed, r))])
            : r \in BOOLEAN }

(***************************************************************************)
(* Dfs::poll_next                                                          *)
(***************************************************************************)
RECURSIVE DfsDrain(_)

\* a poll that returns Pending right after the pop
DfsPendingAfterPop(s) ==
    {Outcome([s EXCEPT !.stack = SubSeq(@, 1, Len(@) - 1)], "Pending")}

\* the top stream is exhausted: pop it and inspect the new top in the same call
DfsAfterPop(s) == DfsDrain([s EXCEPT !.stack = SubSeq(@, 1, Len(@) - 1)])

DfsDrain(s) ==
    IF s.stack = <<>> THEN {Outcome(s, "End")}
    ELSE LET n == Len(s.stack)
             st == s.stack[n]
         IN
         IF ~st.ready THEN {Outcome(s, "Pending")}
         ELSE IF st.items = <<>> THEN DfsAfterPop(s)
         ELSE UNION {
            LET item == Head(st.items)
                s1 == [s EXCEPT !.stack[n] = Advance(st, r)]
            IN  IF ~IsOk(item) THEN {ErrArm(s1, item, st)}
                ELSE IF Unvisited(s1, item) THEN {Accept(s1, item, st)}
                ELSE DfsDrain(s1)
            : r \in BOOLEAN }

\* a poll that drains the stack while the new child stream is awaited
DfsDrainWhileAwaiting(s) == DfsDrain(s)

\* the queue is still waiting for the new child stream: return Pending
DfsAwaiting(s) == {Outcome(s, "Pending")}

DfsPoll(s) ==
    LET p == poll_next_unpin(s.child_streams_futs, s.completed) IN
    IF p = "Pending" THEN DfsAwaiting(s)
    ELSE IF p = "None" THEN DfsDrain(s)
    ELSE UNION {
            DfsDrain([Taken(s) EXCEPT !.stack =
                         Append(@, boxed(YieldedFut(s), s.completed, r))])
            : r \in BOOLEAN }

(***************************************************************************)
(* The state machine.                                                      *)
(***************************************************************************)
\* nothing is left to do: the queue holds no future and no held stream
\* has an item left
NothingLeft ==
    /\ child_streams_futs = <<>>
    /\ current_stream # None => current_stream[1].items = <<>>
    /\ \A i \in 1..Len(stack) : stack[i].items = <<>>

\* nothing is left and every held stream is ready to report its end
Idle ==
    /\ NothingLeft
    /\ current_stream # None => current_stream[1].ready
    /\ \A i \in 1..Len(stack) : stack[i].ready

\* Bfs::new and Dfs::new
Init ==
    /\ engine \in {"bfs", "dfs"}
    /\ graph \in Graphs
    /\ max_depth \in Depths(graph)
    /\ allow_circles \in BOOLEAN
    /\ (allow_circles /\ max_depth = None) => Acyclic(graph)
    /\ visited = {Root}
    /\ child_streams_futs = <<child_stream_fut(1, Root, 1)>>
    /\ current_stream = None
    /\ stack = <<>>
    /\ completed = <<>>
    /\ next_id = 2
    /\ out = <<>>
    /\ ret = "New"
    /\ ended_at = 0 - 1
    /\ idle_poll = FALSE
    /\ woken = TRUE

Return(o) ==
    /\ current_stream' = o.state.current_stream
    /\ stack' = o.state.stack
    /\ child_streams_futs' = o.state.child_streams_futs
    /\ completed' = o.state.completed
    /\ visited' = o.state.visited
    /\ next_id' = o.state.next_id
    /\ out' = o.state.out
    /\ ret' = o.ret
    /\ ended_at' = IF o.ret = "End" /\ ended_at < 0 THEN Len(out) ELSE ended_at
    /\ idle_poll' = Idle
    /\ woken' = (o.ret # "Pending")
    /\ UNCHANGED <<engine, graph, max_depth, allow_circles>>

BfsPollNext ==
    /\ engine = "bfs"
    /\ \E o \in BfsDrain(State) : Return(o)

DfsPollNext ==
    /\ engine = "dfs"
    /\ \E o \in DfsPoll(State) : Return(o)

\* an expansion future in the queue completes and wakes the task
FutureCompletes ==
    \E i \in 1..Len(child_streams_futs) :
        /\ ~IsCompleted(completed, child_streams_futs[i].id)
        /\ completed' = Append(completed, child_streams_futs[i].id)
        /\ UNCHANGED <<engine, graph, max_depth, allow_circles, visited,
                       child_streams_futs, current_stream, stack, next_id,
                       out, ret, ended_at, idle_poll>>
        /\ woken' = TRUE

\* the stream being drained gets its next item (or its end) ready and
\* wakes the task
StreamReady ==
    \/ /\ engine = "bfs"
       /\ current_stream # None
       /\ ~current_stream[1].ready
       /\ current_stream' = Some([current_stream[1] EXCEPT !.ready = TRUE])
       /\ UNCHANGED <<engine, graph, max_depth, allow_circles, visited,
                      child_streams_futs, stack, completed, next_id, out,
                      ret, ended_at, idle_poll>>
       /\ woken' = TRUE
    \/ /\ engine = "dfs"
       /\ stack # <<>>
       /\ ~stack[Len(stack)].ready
       /\ stack' = [stack EXCEPT ![Len(stack)].ready = TRUE]
       /\ UNCHANGED <<engine, graph, max_depth, allow_circles, visited,
                      child_streams_futs, current_stream, completed, next_id,
                      out, ret, ended_at, idle_poll>>
       /\ woken' = TRUE

Next == BfsPollNext \/ DfsPollNext \/ FutureCompletes \/ StreamReady

Spec == Init /\ [][Next]_vars

(***************************************************************************)
(* What the consumer has seen.                                             *)
(***************************************************************************)
\* the items emitted before the first end-of-stream
BeforeEnd == IF ended_at < 0 THEN out ELSE SubSeq(out, 1, ended_at)

Ended == ended_at >= 0

Items(emitted) == [i \in 1..Len(emitted) |-> emitted[i].item]

DepthsOf(emitted) == [i \in 1..Len(emitted) |-> emitted[i].depth]

OkPositions == {i \in 1..Len(out) : IsOk(out[i].item)}

IsPrefix(p, q) == Len(p) <= Len(q) /\ SubSeq(q, 1, Len(p)) = p

(***************************************************************************)
(* C1: with allow_circles = false, in both engines, the visited set holds  *)
(* the root from construction on, every node emitted as Ok is in the       *)
(* visited set from its emission on, the visited set never shrinks, and no *)
(* two Ok emissions carry equal nodes, so that the root is never emitted.  *)
(***************************************************************************)
C1_Visited ==
    ~allow_circles =>
        /\ Root \in visited
        /\ \A i \in OkPositions : out[i].item \in visited /\ out[i].item # Root
        /\ \A i, j \in OkPositions : out[i].item = out[j].item => i = j

C1_NoReemission ==
    [](C1_Visited) /\ [][~allow_circles => visited \subseteq visited']_vars

\* a back-edge to the root and a second path to a node were both skipped
C1_Witness ==
    /\ ~allow_circles
    /\ graph = "cycle"
    /\ ret = "End"
    /\ visited = {0, 1, 2, 3}
    /\ Len(out) = 3

(***************************************************************************)
(* C2: in both engines, with max_depth = Some(k), k = 0 included, no       *)
(* emitted node has a depth greater than k; with max_depth = Some(0) the   *)
(* output is empty.                                                        *)
(***************************************************************************)
C2_DepthCutoff ==
    max_depth # None =>
        \A i \in OkPositions : out[i].depth <= max_depth[1]

(***************************************************************************)
(* C3: under Bfs the depths of the emitted Ok nodes never decrease,        *)
(* whatever the graph, the configuration and the order in which futures    *)
(* complete and items become ready.                                        *)
(***************************************************************************)
C3_BfsMonotone ==
    engine = "bfs" =>
        \A i, j \in OkPositions : i < j => out[i].depth <= out[j].depth

\* three generations were emitted although a future completed before one
\* that was ahead of it in the queue
C3_Witness ==
    /\ engine = "bfs"
    /\ ret = "End"
    /\ \E i, j \in OkPositions : out[i].depth = 1 /\ out[j].depth = 3
    /\ \E i \in OkPositions : out[i].before # {}

(***************************************************************************)
(* The classical walks the engines are compared with.                      *)
(***************************************************************************)
Tagged(items, d) == [i \in 1..Len(items) |-> [item |-> items[i], depth |-> d]]

Emitted(emitted) ==
    [i \in 1..Len(emitted) |-> [item |-> emitted[i].item, depth |-> emitted[i].depth]]

RECURSIVE ChildrenOfAll(_, _)
\* the children of the nodes of a level, parent by parent
ChildrenOfAll(g, nodes) ==
    IF nodes = <<>> THEN <<>>
    ELSE Children(g, Head(nodes)) \o ChildrenOfAll(g, Tail(nodes))

RECURSIVE LevelsFrom(_, _, _, _)
\* the levels d..k below the nodes of level d - 1, one item per path
LevelsFrom(g, nodes, d, k) ==
    IF d > k THEN <<>>
    ELSE LET level == ChildrenOfAll(g, nodes)
         IN  Tagged(level, d) \o LevelsFrom(g, level, d + 1, k)

LevelOrder(g, k) == LevelsFrom(g, <<Root>>, 1, k)

RECURSIVE Walk(_, _, _, _)
\* the recursive pre-order walk over the items of a child stream of depth d
Walk(g, items, d, k) ==
    IF items = <<>> \/ d > k THEN <<>>
    ELSE <<[item |-> Head(items), depth |-> d]>>
         \o Walk(g, Children(g, Head(items)), d + 1, k)
         \o Walk(g, Tail(items), d, k)

PreOrder(g, k) == Walk(g, Children(g, Root), 1, k)

\* the graphs without an error item and without a failing expansion
Succeeds(g) == g \in {"tree", "backedge", "cycle", "dups", "detour"}

(***************************************************************************)
(* C4: Bfs with allow_circles = true and max_depth = Some(k), on a graph   *)
(* whose expansions all succeed, emits level by level one item per path of *)
(* length 1..k from the root and then end-of-stream; on the binary tree    *)
(* with k = 3 the depths are [1,1,2,2,2,2,3,3,3,3,3,3,3,3].                *)
(***************************************************************************)
C4_BfsLevelOrder ==
    (engine = "bfs" /\ allow_circles /\ max_depth # None /\ Succeeds(graph) /\ Ended) =>
        /\ Emitted(BeforeEnd) = LevelOrder(graph, max_depth[1])
        /\ (graph = "tree" /\ max_depth = Some(TestDepth)) =>
               DepthsOf(BeforeEnd) = <<1, 1, 2, 2, 2, 2, 3, 3, 3, 3, 3, 3, 3, 3>>

\* the same for k >= 1
C4_BfsLevelOrderFromOne ==
    (max_depth # None /\ max_depth # Some(0)) => C4_BfsLevelOrder

(***************************************************************************)
(* C5: Dfs with allow_circles = true and max_depth = Some(k), on a graph   *)
(* whose expansions all succeed, emits the nodes in the order of the       *)
(* recursive pre-order walk cut at depth k, the root excluded; on the      *)
(* binary tree with k = 3 the depths are [1,2,3,3,2,3,3,1,2,3,3,2,3,3].    *)
(***************************************************************************)
C5_DfsPreOrder ==
    (engine = "dfs" /\ allow_circles /\ max_depth # None /\ Succeeds(graph) /\ Ended) =>
        /\ Emitted(BeforeEnd) = PreOrder(graph, max_depth[1])
        /\ (graph = "tree" /\ max_depth = Some(TestDepth)) =>
               DepthsOf(BeforeEnd) = <<1, 2, 3, 3, 2, 3, 3, 1, 2, 3, 3, 2, 3, 3>>

\* the same for k >= 1
C5_DfsPreOrderFromOne ==
    (max_depth # None /\ max_depth # Some(0)) => C5_DfsPreOrder

(***************************************************************************)
(* C6: on the binary tree in which node n has the children 2n+1 and 2n+2,  *)
(* with root 0, max_depth = 3 and allow_circles = false, both engines emit *)
(* exactly 1, 3, 7 and then end-of-stream.                                 *)
(***************************************************************************)
TestRun == graph = "tree" /\ max_depth = Some(TestDepth) /\ ~allow_circles

C6_Expected ==
    IF engine = "bfs"
    THEN Tagged(<<1, 2>>, 1) \o Tagged(<<3, 4, 5, 6>>, 2)
         \o Tagged(<<7, 8, 9, 10, 11, 12, 13, 14>>, 3)
    ELSE <<[item |-> 1, depth |-> 1], [item |-> 3, depth |-> 2],
           [item |-> 7, depth |-> 3], [item |-> 8, depth |-> 3],
           [item |-> 4, depth |-> 2], [item |-> 9, depth |-> 3],
           [item |-> 10, depth |-> 3], [item |-> 2, depth |-> 1],
           [item |-> 5, depth |-> 2], [item |-> 11, depth |-> 3],
           [item |-> 12, depth |-> 3], [item |-> 6, depth |-> 2],
           [item |-> 13, depth |-> 3], [item |-> 14, depth |-> 3]>>

OkItems(items) == {items[i] : i \in {j \in 1..Len(items) : IsOk(items[j])}}

RECURSIVE Closure(_, _)
Closure(g, nodes) ==
    LET more == nodes \cup UNION {OkItems(Children(g, n)) : n \in nodes}
    IN  IF more = nodes THEN nodes ELSE Closure(g, more)

\* the nodes a path of one or more edges leads to from the root
Reachable(g) == Closure(g, OkItems(Children(g, Root)))

Count(seq, x) == Cardinality({i \in 1..Len(seq) : seq[i] = x})

\* what the expansion of a node delivers: its child stream, or its error
Delivered(g, n) ==
    IF ExpansionFails(g, n) THEN <<ExpansionError(n)>> ELSE Children(g, n)

\* the nodes an expansion future was created for: the root and every
\* emitted node below the cutoff
Expanded(emitted) ==
    <<Root>> \o Items(SelectSeq(emitted,
                  LAMBDA e : IsOk(e.item) /\ ~AtCutoff(e.depth)))

RECURSIVE Due(_, _, _)
\* how often the error e is delivered by the expansions of the nodes
Due(g, nodes, e) ==
    IF nodes = <<>> THEN 0
    ELSE Count(Delivered(g, Head(nodes)), e) + Due(g, Tail(nodes), e)

Errors == {0 - 1, 0 - 2} \cup {ExpansionError(n) : n \in 0..3}

(***************************************************************************)
(* C7: in both engines, with allow_circles = false and max_depth = None,   *)
(* on a finite graph whose expansions all succeed, the nodes emitted       *)
(* before end-of-stream are the nodes reachable from the root, each        *)
(* emitted once.                                                           *)
(***************************************************************************)
C7_Completeness ==
    (~allow_circles /\ max_depth = None /\ Succeeds(graph) /\ Ended) =>
        /\ OkItems(Items(BeforeEnd)) = Reachable(graph) \ {Root}
        /\ \A n \in Reachable(graph) \ {Root} : Count(Items(BeforeEnd), n) = 1

\* the same for Dfs alone
C7_DfsCompleteness == engine = "dfs" => C7_Completeness

(***************************************************************************)
(* C8: in both engines every error is surfaced exactly once and never      *)
(* ends the traversal: at end-of-stream every error delivered by an        *)
(* expansion, as the error of the future or as an item of the child        *)
(* stream, has been emitted as often as it was delivered.                  *)
(***************************************************************************)
C8_ErrorsSurfaced ==
    Ended =>
        \A e \in Errors :
            Count(Items(BeforeEnd), e) = Due(graph, Expanded(BeforeEnd), e)

\* the same for Dfs alone
C8_DfsErrorsSurfaced == engine = "dfs" => C8_ErrorsSurfaced

(***************************************************************************)
(* C9: in both engines poll_next returns end-of-stream when and only when  *)
(* the queue holds no future and no held stream has an item left; Dfs      *)
(* never returns end-of-stream while a future is queued.                   *)
(***************************************************************************)
C9_EndOfStream ==
    /\ ret = "End" => NothingLeft
    /\ idle_poll => ret = "End"

\* the same for Dfs alone
C9_DfsEndOfStream == engine = "dfs" => C9_EndOfStream

(***************************************************************************)
(* C10: under Bfs, when the expansion future of one parent completed       *)
(* strictly before that of another parent of the same generation, every    *)
(* item of the first parent's child stream is emitted before every item    *)
(* of the second's.                                                        *)
(***************************************************************************)
C10_CompletionOrder ==
    engine = "bfs" =>
        \A i, j \in 1..Len(out) :
            (i < j /\ out[i].depth = out[j].depth) => out[j].src \notin out[i].before

(***************************************************************************)
(* C10 as amended: under Bfs, when the expansion future of one parent was  *)
(* submitted before that of another parent of the same generation, every   *)
(* item of the first parent's child stream is emitted before every item    *)
(* of the second's, whichever of the two futures completed first.          *)
(***************************************************************************)
C10_SubmissionOrder ==
    engine = "bfs" =>
        \A i, j \in 1..Len(out) :
            (i < j /\ out[i].depth = out[j].depth) => out[i].src <= out[j].src

\* two streams of a generation were emitted in the order of submission
\* although their futures completed in the other order
C10_Witness ==
    /\ engine = "bfs"
    /\ \E i, j \in 1..Len(out) :
          /\ i < j
          /\ out[i].depth = out[j].depth
          /\ out[i].src < out[j].src
          /\ out[j].src \in out[i].before

(***************************************************************************)
(* The expansion futures, read off the emissions: the futures get their    *)
(* ids in the order of the emissions that create them, the root's is 1.    *)
(***************************************************************************)
\* the emission creates an expansion future
Expands(e) == IsOk(e.item) /\ ~AtCutoff(e.depth)

Expanding == {i \in 1..Len(out) : Expands(out[i])}

\* the id of the future the expanding emission i creates
FutOf(i) == 1 + Cardinality({j \in Expanding : j <= i})

\* the emission that created the future f > 1
Creator(f) == CHOOSE i \in Expanding : FutOf(i) = f

\* the node the future f expands
NodeOf(f) == IF f = 1 THEN Root ELSE out[Creator(f)].item

RECURSIVE Grown(_)
Grown(futs) ==
    LET more == futs \cup {FutOf(j) : j \in {l \in Expanding : out[l].src \in futs}}
    IN  IF more = futs THEN futs ELSE Grown(more)

\* the futures (and so the child streams) of the node of emission i and of
\* its emitted descendants
SubtreeOf(i) == Grown({FutOf(i)})

RECURSIVE Enclosing(_)
\* the stream f and the streams of the ancestors of its node
Enclosing(f) == IF f = 1 THEN {1} ELSE {f} \cup Enclosing(out[Creator(f)].src)

\* the futures and streams the engine holds
Held ==
    {child_streams_futs[i].id : i \in 1..Len(child_streams_futs)}
    \cup {stack[i].src : i \in 1..Len(stack)}
    \cup (IF current_stream = None THEN {} ELSE {current_stream[1].src})

\* the expanding emissions whose expansion succeeds
Dives == {i \in Expanding : ~ExpansionFails(graph, out[i].item)}

(***************************************************************************)
(* C11, first part: under Dfs, once an item of a stream of depth <= d is   *)
(* emitted after a node X of depth d whose expansion succeeds, the child   *)
(* stream of X and the streams of its emitted descendants are popped and   *)
(* emit nothing any more.                                                  *)
(***************************************************************************)
C11_SubtreeFirst ==
    \A i \in Dives : \A j \in 1..Len(out) :
        (i < j /\ out[j].depth <= out[i].depth) =>
            /\ \A l \in 1..Len(out) : l > j => out[l].src \notin SubtreeOf(i)
            /\ Held \cap SubtreeOf(i) = {}

(***************************************************************************)
(* C11: the first part, and when the stream of X yields nothing emittable  *)
(* the next emission continues the stream of X's parent.                   *)
(***************************************************************************)
C11_DiveThenParent ==
    engine = "dfs" =>
        /\ C11_SubtreeFirst
        /\ \A i \in Dives : i < Len(out) =>
               out[i + 1].src \in {FutOf(i), out[i].src}

(***************************************************************************)
(* C11 as amended: the first part, and when the stream of X yields nothing *)
(* emittable the next emission continues the stream of X's parent or, when *)
(* that stream has nothing emittable left either, the stream of the        *)
(* nearest ancestor that has.                                              *)
(***************************************************************************)
C11_DiveThenEnclosing ==
    engine = "dfs" =>
        /\ C11_SubtreeFirst
        /\ \A i \in Dives : i < Len(out) =>
               out[i + 1].src \in {FutOf(i)} \cup Enclosing(out[i].src)

\* a node was expanded without an emission from its stream, and the walk
\* went on two levels up; later the walk left the subtree of a node for good
C11_Witness ==
    /\ engine = "dfs"
    /\ \E i \in Dives :
          /\ i < Len(out)
          /\ out[i + 1].src \notin {FutOf(i), out[i].src}
    /\ \E i \in Dives : \E j \in 1..Len(out) :
          /\ i + 1 < j
          /\ out[i + 1].src = FutOf(i)
          /\ out[j].depth <= out[i].depth

(***************************************************************************)
(* C12: under Dfs, when an emitted Ok node is deeper than the Ok node      *)
(* emitted before it, it is deeper by exactly 1 and it is a child yielded  *)
(* by the expansion of that node.                                          *)
(***************************************************************************)
\* i and j are successive Ok emissions
Successive(i, j) ==
    /\ i \in OkPositions /\ j \in OkPositions /\ i < j
    /\ \A l \in OkPositions : ~(i < l /\ l < j)

C12_Descent ==
    engine = "dfs" =>
        \A i, j \in OkPositions :
            (Successive(i, j) /\ out[j].depth > out[i].depth) =>
                /\ out[j].depth = out[i].depth + 1
                /\ i \in Expanding
                /\ out[j].src = FutOf(i)
                /\ out[j].item \in OkItems(Children(graph, out[i].item))

\* a descent into the first Ok child, an error of the child stream emitted
\* between the parent and the child
C12_Witness ==
    /\ engine = "dfs"
    /\ \E i, j \in OkPositions :
          /\ Successive(i, j) /\ j > i + 1
          /\ out[j].depth = out[i].depth + 1

(***************************************************************************)
(* The run in which nothing is ever awaited: every queued future has       *)
(* completed, in queue order, before each poll, and every stream has its   *)
(* next item ready.  It is one of the runs of Spec.                        *)
(***************************************************************************)
Constructed ==
    [current_stream |-> None, stack |-> <<>>,
     child_streams_futs |-> <<child_stream_fut(1, Root, 1)>>,
     completed |-> <<>>, visited |-> {Root}, next_id |-> 2, out |-> <<>>]

AllCompleted(s) ==
    [s EXCEPT !.completed =
        [i \in 1..Len(s.child_streams_futs) |-> s.child_streams_futs[i].id]]

Range(seq) == {seq[i] : i \in 1..Len(seq)}

AllReady(s) ==
    /\ s.current_stream # None => s.current_stream[1].ready
    /\ \A i \in 1..Len(s.stack) : s.stack[i].ready

poll_next(s) == IF engine = "bfs" THEN BfsDrain(s) ELSE DfsPoll(s)

RECURSIVE EagerRun(_)
\* the items the run emits before end-of-stream
EagerRun(s) ==
    LET o == CHOOSE o \in poll_next(AllCompleted(s)) : AllReady(o.state)
    IN  IF o.ret = "End" THEN Items(s.out) ELSE EagerRun(o.state)

(***************************************************************************)
(* C13: in both engines every run emits, before end-of-stream, the same    *)
(* multiset of items as the run of the same configuration in which         *)
(* nothing is ever awaited: the multiset does not depend on the order and  *)
(* timing of the completions.                                              *)
(***************************************************************************)
C13_SameMultiset ==
    Ended =>
        LET eager == EagerRun(Constructed) IN
        \A x \in Range(eager) \cup Range(Items(BeforeEnd)) :
            Count(Items(BeforeEnd), x) = Count(eager, x)

\* the same for Dfs alone
C13_DfsSameMultiset == engine = "dfs" => C13_SameMultiset

\* the same without the skipped nodes of Bfs: with allow_circles = true
C13_CirclesSameMultiset == allow_circles => C13_SameMultiset

(***************************************************************************)
(* C14: in both engines, once poll_next has returned end-of-stream every   *)
(* later poll returns end-of-stream, emits nothing and creates no          *)
(* expansion future.                                                       *)
(***************************************************************************)
C14_Terminal ==
    Ended =>
        /\ ret = "End"
        /\ Len(out) = ended_at
        /\ child_streams_futs = <<>>

\* the same for Dfs alone
C14_DfsTerminal == engine = "dfs" => C14_Terminal

\* the items emitted from the stream of the future f, in order
EmittedFrom(f) == Items(SelectSeq(out, LAMBDA e : e.src = f))

(***************************************************************************)
(* C15, second part: with allow_circles = true the visited set does not    *)
(* change and no node is skipped: what a stream has emitted is what the    *)
(* expansion delivered, item by item.                                      *)
(***************************************************************************)
C15_NeverConsulted ==
    allow_circles =>
        /\ visited = {Root}
        /\ \A f \in 1..(next_id - 1) :
              EmittedFrom(f) # <<>> =>
                  IsPrefix(EmittedFrom(f), Delivered(graph, NodeOf(f)))

(***************************************************************************)
(* C15: in both engines the visited set is empty if and only if            *)
(* allow_circles = true, after construction and after every poll, and      *)
(* with allow_circles = true no node is skipped.                           *)
(***************************************************************************)
C15_EmptyIffCircles ==
    /\ allow_circles <=> visited = {}
    /\ C15_NeverConsulted

\* the expansion futures created so far; 1 is the future of the root
Futures == 1..(next_id - 1)

\* the depth of the node the future f expands: the root counts as depth 0
NodeDepth(f) == IF f = 1 THEN 0 ELSE out[Creator(f)].depth

(***************************************************************************)
(* C16, for the emitted nodes: with max_depth = Some(k) an emitted node of *)
(* depth >= k gets no expansion future, and the future of an emitted node  *)
(* of depth d is tagged d + 1.                                             *)
(***************************************************************************)
C16_EmittedBelowCutoff ==
    /\ next_id = 2 + Cardinality(Expanding)
    /\ \A i \in Expanding : max_depth # None => out[i].depth < max_depth[1]
    /\ \A q \in Range(child_streams_futs) :
          q.id # 1 => q.depth = out[Creator(q.id)].depth + 1

(***************************************************************************)
(* C16: in both engines, with max_depth = Some(k), no expansion future is  *)
(* created for a node at depth >= k, the root counting as depth 0, and     *)
(* every future created for an emitted node of depth d is tagged d + 1.    *)
(***************************************************************************)
C16_NoFutureAtCutoff ==
    /\ C16_EmittedBelowCutoff
    /\ max_depth # None => \A f \in Futures : NodeDepth(f) < max_depth[1]

\* the queue holds a future and the one to yield next is still in flight
QueuePending == poll_next_unpin(child_streams_futs, completed) = "Pending"

\* the stream being drained has its next item not ready
StreamPending ==
    IF engine = "bfs"
    THEN current_stream # None /\ ~current_stream[1].ready
    ELSE stack # <<>> /\ ~stack[Len(stack)].ready

(***************************************************************************)
(* C17: in both engines a poll returns Pending only when the stream being  *)
(* drained or the non-empty queue of futures returned Pending in that      *)
(* call; Dfs does not return Pending on popping an exhausted stream, it    *)
(* inspects the new top in the same call.                                  *)
(***************************************************************************)
C17_PendingHasCause ==
    [][((BfsPollNext \/ DfsPollNext) /\ ret' = "Pending") =>
          (QueuePending' \/ StreamPending')]_vars

\* Dfs popped the stream of the last emission and returned Pending for the
\* stream below it
C17_Witness ==
    /\ engine = "dfs"
    /\ ret = "Pending"
    /\ child_streams_futs = <<>>
    /\ stack # <<>>
    /\ ~stack[Len(stack)].ready
    /\ out # <<>>
    /\ out[Len(out)].depth > Len(stack)

\* the step is a poll that emits an Err item
EmitsErr ==
    /\ BfsPollNext \/ DfsPollNext
    /\ Len(out') = Len(out) + 1
    /\ ~IsOk(out'[Len(out')].item)

\* the streams the engine holds, by the future they came from
HeldStreams ==
    {stack[i].src : i \in 1..Len(stack)}
    \cup (IF current_stream = None THEN {} ELSE {current_stream[1].src})

\* the stream being drained comes from the future f
Draining(f) ==
    IF engine = "bfs"
    THEN current_stream # None /\ current_stream[1].src = f
    ELSE stack # <<>> /\ stack[Len(stack)].src = f

\* the stream being drained is the one of the last emission
DrainsLast == out # <<>> /\ Draining(out[Len(out)].src)

\* the stream being drained
Drained == IF engine = "bfs" THEN current_stream[1] ELSE stack[Len(stack)]

\* the previous poll emitted an Err item
ErrEmitted == ret = "Item" /\ out # <<>> /\ ~IsOk(out[Len(out)].item)

\* the next item of the stream is one the engine emits
Emittable(st) ==
    /\ st.ready
    /\ st.items # <<>>
    /\ IsOk(Head(st.items)) => Unvisited(State, Head(st.items))

(***************************************************************************)
(* C18, second part: the poll after the one that emitted an Err item polls *)
(* the stream the Err came from first: it returns Pending when that stream *)
(* is not ready, and emits the next item of that stream when it is one the *)
(* engine emits.                                                           *)
(***************************************************************************)
C18_ResumesSameStream ==
    (ErrEmitted /\ (BfsPollNext \/ DfsPollNext)) =>
        /\ Draining(out[Len(out)].src)
        /\ ~Drained.ready => (ret' = "Pending" /\ out' = out)
        /\ Emittable(Drained) =>
              /\ Len(out') = Len(out) + 1
              /\ out'[Len(out')].src = Drained.src
              /\ out'[Len(out')].item = Head(Drained.items)

(***************************************************************************)
(* C18: in both engines the poll that emits an Err item leaves the visited *)
(* set, the queue of futures and the set of held streams unchanged, keeps  *)
(* the stream the Err came from, and the next poll resumes that stream.    *)
(***************************************************************************)
C18_ErrPollFrame ==
    [][/\ EmitsErr =>
            /\ visited' = visited
            /\ child_streams_futs' = child_streams_futs
            /\ HeldStreams' = HeldStreams
            /\ DrainsLast'
       /\ C18_ResumesSameStream]_vars

(***************************************************************************)
(* C18 as amended: in both engines the poll that emits an Err item adds    *)
(* nothing to the visited set, creates no expansion future (the queue at   *)
(* most loses the future whose stream the poll installed) and keeps the    *)
(* stream the Err came from as the stream being drained, and the next poll *)
(* resumes that stream.                                                    *)
(***************************************************************************)
C18_ErrArmFrame ==
    [][/\ EmitsErr =>
            /\ visited' = visited
            /\ next_id' = next_id
            /\ Range(child_streams_futs') \subseteq Range(child_streams_futs)
            /\ DrainsLast'
       /\ C18_ResumesSameStream]_vars

\* an Err was emitted by the poll that installed its stream, and the next
\* item of that stream after it
C18_Witness ==
    \E i \in 1..Len(out) :
        /\ ~IsOk(out[i].item)
        /\ i < Len(out)
        /\ out[i + 1].src = out[i].src
        /\ \A j \in 1..(i - 1) : out[j].src # out[i].src

\* the queued future is the one of the last emission, or the root's before
\* the first emission
QueuedForLast ==
    child_streams_futs # <<>> =>
        LET f == child_streams_futs[1] IN
        IF out = <<>> THEN f.id = 1
        ELSE Len(out) \in Expanding /\ f.id = FutOf(Len(out))

\* Dfs: at most one future is queued, and the stack entries carry the
\* depths 1, 2, ..., n from bottom to top
C20_QueueAndStack ==
    engine = "dfs" =>
        /\ Len(child_streams_futs) <= 1
        /\ \A i \in 1..Len(stack) : stack[i].depth = i
        /\ QueuedForLast

\* Dfs: the stack is never higher than max_depth
C20_StackHeight ==
    (engine = "dfs" /\ max_depth # None) => Len(stack) <= max_depth[1]

\* Dfs: a poll that finds the queued future completed takes it off the queue
C20_TakenWhenCompleted ==
    (DfsPollNext /\ poll_next_unpin(child_streams_futs, completed) = "Ready") =>
        child_streams_futs[1] \notin Range(child_streams_futs')

(***************************************************************************)
(* C20: in Dfs the queue holds at most one expansion future, the stack     *)
(* entries carry the depths 1, 2, ..., n from bottom to top, the stack     *)
(* height never exceeds max_depth when it is set, and a future is in the   *)
(* queue only between the emission of its node and the next poll that      *)
(* finds it completed.                                                     *)
(***************************************************************************)
C20_DfsShape ==
    /\ [](C20_QueueAndStack /\ C20_StackHeight)
    /\ [][C20_TakenWhenCompleted]_vars

\* the same for max_depth = None or Some(k) with k >= 1
C20_DfsShapeFromOne ==
    /\ [](C20_QueueAndStack /\ (max_depth # Some(0) => C20_StackHeight))
    /\ [][C20_TakenWhenCompleted]_vars

(***************************************************************************)
(* The streams with their consumer: every configuration, also the ones     *)
(* that never end.  The consumer polls after every item and after every    *)
(* wake-up; every future in flight completes and every stream gets its     *)
(* next item ready.  A traversal that never ends is followed for MaxOut    *)
(* emissions.                                                              *)
(***************************************************************************)
MaxOut == 3

\* the finite graphs
Finite == Graphs \ {"tree"}

\* Bfs::new and Dfs::new for every configuration
LiveInit ==
    /\ engine \in {"bfs", "dfs"}
    /\ graph \in Finite
    /\ max_depth \in Depths(graph)
    /\ allow_circles \in BOOLEAN
    /\ visited = {Root}
    /\ child_streams_futs = <<child_stream_fut(1, Root, 1)>>
    /\ current_stream = None
    /\ stack = <<>>
    /\ completed = <<>>
    /\ next_id = 2
    /\ out = <<>>
    /\ ret = "New"
    /\ ended_at = 0 - 1
    /\ idle_poll = FALSE
    /\ woken = TRUE

\* nothing stops the traversal of a cycle: no visited set and no cutoff
Diverges == allow_circles /\ max_depth = None /\ ~Acyclic(graph)

Followed == Diverges => Len(out) < MaxOut

LiveBfsPollNext == Followed /\ BfsPollNext

LiveDfsPollNext == Followed /\ DfsPollNext

\* the consumer has a poll to make: the first one, the one after an item,
\* and the one after a wake-up
PollDue ==
    /\ ret \in {"New", "Item"} \/ (ret = "Pending" /\ woken)
    /\ Followed

ConsumerPolls == PollDue /\ (BfsPollNext \/ DfsPollNext)

LiveNext == LiveBfsPollNext \/ LiveDfsPollNext \/ FutureCompletes \/ StreamReady

\* WF_vars(ConsumerPolls): a due poll changes ret, out or woken, so that
\* PollDue is ENABLED <<ConsumerPolls>>_vars
ConsumerFair == []<>(~PollDue) \/ []<><<ConsumerPolls>>_vars

LiveSpec ==
    /\ LiveInit
    /\ [][LiveNext]_vars
    /\ ConsumerFair
    /\ WF_vars(FutureCompletes)
    /\ WF_vars(StreamReady)

(***************************************************************************)
(* C19: in both engines, with allow_circles = false or max_depth set, the  *)
(* stream eventually returns end-of-stream when every future completes,    *)
(* every stream becomes ready and the consumer polls after every item and  *)
(* every wake-up; with allow_circles = true, max_depth = None and a cycle  *)
(* reachable from the root it never does.                                  *)
(***************************************************************************)
C19_Termination ==
    /\ (~allow_circles \/ max_depth # None) => <>Ended
    /\ [](Diverges => ~Ended)

\* a traversal of a graph with a cycle, with allow_circles = true, that the
\* cutoff has ended
C19_Witness ==
    /\ allow_circles
    /\ max_depth # None
    /\ ~Acyclic(graph)
    /\ ret = "End"
    /\ Len(out) >= 3

RECURSIVE Within(_, _)
\* the nodes at most k edges away from the root
Within(g, k) ==
    IF k = 0 THEN {Root}
    ELSE LET near == Within(g, k - 1)
         IN  near \cup UNION {OkItems(Children(g, n)) : n \in near}

\* the shortest-path distance of a reachable node from the root
Distance(g, n) ==
    CHOOSE k \in 0..Cardinality(Reachable(g) \cup {Root}) :
        /\ n \in Within(g, k)
        /\ \A j \in 0..(k - 1) : n \notin Within(g, j)

\* Bfs without circles on a finite graph whose expansions all succeed
BfsOnFinite ==
    engine = "bfs" /\ ~allow_circles /\ graph \in Finite /\ Succeeds(graph)

\* every emitted node is emitted at its distance from the root
C21_AtDistance ==
    BfsOnFinite =>
        \A i \in 1..Len(out) : out[i].depth = Distance(graph, out[i].item)

\* with max_depth = Some(k), k >= 1, the nodes emitted before end-of-stream
\* are the non-root nodes within distance k
C21_AllWithinBound ==
    (BfsOnFinite /\ max_depth # None /\ max_depth # Some(0) /\ Ended) =>
        OkItems(Items(BeforeEnd)) = Within(graph, max_depth[1]) \ {Root}

(***************************************************************************)
(* C21: in Bfs with allow_circles = false on a finite graph whose          *)
(* expansions all succeed, every emitted node is emitted at its            *)
(* shortest-path distance from the root, and with max_depth = Some(k),     *)
(* k >= 1, the nodes emitted before end-of-stream are exactly the non-root *)
(* nodes within distance k of the root.                                    *)
(***************************************************************************)
C21_ShortestPaths == C21_AtDistance /\ C21_AllWithinBound

====
